---------------------------- MODULE Spec2Model ----------------------------
(***************************************************************************)
(* cliobot: the session state (Session, CachedSession) and the dispatcher  *)
(* (BaseBot) of src/cliobot/bots/__init__.py.                              *)
(*                                                                         *)
(* Python dictionaries are functions whose DOMAIN is the set of keys       *)
(* present.  The Python value None is the string "None"; every other value *)
(* is a string too, so that any two values can be compared.                *)
(*                                                                         *)
(* The backing store (cliobot.db) is not part of the sources modelled      *)
(* here: it is modelled from its contract, create_or_get_chat_session and  *)
(* set_chat_context, with value semantics (a record handed out by the      *)
(* store shares nothing with the store).                                   *)
(***************************************************************************)
EXTENDS Naturals, Sequences, FiniteSets

\* ------------------------------------------------------------------ bounds

\* Workers of the pool (os.cpu_count() on the host).
NumWorkers == 2
\* Operations one session-level run performs, loads included.
MaxOps == 4
\* Updates handed to enqueue.
MaxUpdates == 3

\* ------------------------------------------------------------------ values

None == "None"
Keys == {"k1", "temp_image"}
\* The keys the runs write preferences under.
PrefKeys == {"k1"}
Values == {None, "x", "y"}
Users == {"u1", "u2"}
Chats == {"c1"}
Workers == 1..NumWorkers

EmptyDict == [x \in {} |-> None]

\* dict.get(k, default)
dict_get(d, k, default) == IF k \in DOMAIN d THEN d[k] ELSE default

\* d[k] = v
dict_setitem(d, k, v) == [x \in (DOMAIN d) \cup {k} |-> IF x = k THEN v ELSE d[x]]

\* d.pop(k) for a key that is present: the dictionary left behind
dict_without(d, k) == [x \in (DOMAIN d) \ {k} |-> d[x]]

\* All dictionaries over the keys K with values in V.
Dicts(K, V) == UNION {[D -> V] : D \in SUBSET K}

VARIABLES
  context,        \* context[w]: Session.context of worker w's session
  preferences,    \* preferences[w]: Session.preferences
  dirty,          \* dirty[w]: CachedSession.dirty
  user_id,        \* user_id[w]: Session.user_id
  chat_id,        \* chat_id[w]: Session.chat_id
  live,           \* live[w]: worker w holds a constructed CachedSession
  db,             \* the backing store: user id -> record
  db_call,        \* the arguments of the last set_chat_context call the store received
  last_call,      \* last_call[w]: the last operation on w's session and its outcome
  loaded,         \* loaded[w]: (context, preferences) as of the last load or successful persist
  mutations,      \* mutations[w]: set/set_preference/pop/clear calls since the load
  writes,         \* writes[w]: set_chat_context calls issued since the load
  persisted,      \* persisted[w]: outcomes of the set_chat_context calls issued since the
                  \* last set/set_preference/pop/clear call or load, in order
  nops,           \* operations performed so far (bounded by MaxOps)
  wpc,            \* wpc[w]: position of worker w in its processing cycle
  job,            \* job[w]: the update worker w is processing
  last_writer,    \* the worker whose set_chat_context call the store applied last
  race_log,       \* the loads and the applied writes of the racing workers, in order
  bot_state,      \* position of BaseBot.listen
  next_thread,    \* index into self.threads / self.senders of the running comprehension
  started,        \* started[w]: thread w was started
  stop_signal,    \* stop_signal[w]: senders[w].stop() was called
  internal_queue, \* BaseBot.internal_queue
  delivered,      \* delivered[w]: the updates worker w took from the queue, in order
  enqueued,       \* number of enqueue calls so far
  pre_listen      \* number of enqueue calls made before listen() was invoked

sessVars == <<context, preferences, dirty, user_id, chat_id, live, db, db_call,
              last_call, loaded, mutations, writes, persisted>>
raceVars == <<wpc, job, last_writer, race_log>>
botVars == <<bot_state, next_thread, started, stop_signal, internal_queue,
             delivered, enqueued, pre_listen>>
vars == <<sessVars, nops, raceVars, botVars>>

\* ------------------------------------------------------------ backing store

Record(u, c, p) == [external_user_id |-> u, context |-> c, preferences |-> p]

\* create_or_get_chat_session(user_id): the store after the call (a default
\* record is created on the first call for the user)
db_after_create_or_get(store, u) ==
  IF u \in DOMAIN store THEN store ELSE dict_setitem(store, u, Record(u, EmptyDict, EmptyDict))

\* create_or_get_chat_session(user_id): the record returned
create_or_get_chat_session(store, u) == db_after_create_or_get(store, u)[u]

\* set_chat_context(user_id, context, preferences): full overwrite of both maps
set_chat_context(store, u, c, p) == dict_setitem(store, u, Record(u, c, p))

NoCall == [user_id |-> None, context |-> EmptyDict, preferences |-> EmptyDict, ok |-> FALSE]

\* ------------------------------------------------------------------ Session

\* Session.pop: the value returned
Session_pop_result(ctx, key) == IF key \in DOMAIN ctx THEN ctx[key] ELSE None

\* Session.pop: the context left behind
Session_pop(ctx, key) == IF key \in DOMAIN ctx THEN dict_without(ctx, key) ELSE ctx

\* Session.set as it would be were a key already present left alone
Session_set_keeps_existing(ctx, key, value) ==
  IF key \in DOMAIN ctx THEN ctx ELSE dict_setitem(ctx, key, value)

\* Session.set
Session_set(ctx, key, value) == dict_setitem(ctx, key, value)

\* Session.set_preference
Session_set_preference(prefs, key, val) == dict_setitem(prefs, key, val)

\* Session.clear as the lines commented out in it would have it: the
\* temporary media are kept unless the user is cleared
Session_clear_keeping_temp(ctx, clear_user) ==
  LET kept == {x \in DOMAIN ctx :
                 x \in {"temp_image", "temp_audio", "temp_video"} /\ ~clear_user}
  IN [x \in kept |-> ctx[x]]

\* Session.clear: newc, whatever clear_user is
Session_clear(ctx, clear_user) == EmptyDict

\* Python truthiness of a value
Truthy(v) == v \notin {None, ""}

\* Session.get as it would be were preferences looked up before context
Session_get_prefs_first(ctx, prefs, key, default, include_preferences) ==
  LET res0 == IF include_preferences THEN dict_get(prefs, key, None) ELSE None
      res == IF ~Truthy(res0) THEN dict_get(ctx, key, default) ELSE res0
  IN IF Truthy(res) THEN res ELSE default

\* Session.get as it would be were res returned instead of res or default
Session_get_without_default(ctx, prefs, key, default, include_preferences) ==
  LET res0 == dict_get(ctx, key, None)
  IN IF ~Truthy(res0) /\ include_preferences
       THEN dict_get(prefs, key, default)
       ELSE res0

\* Session.get
Session_get(ctx, prefs, key, default, include_preferences) ==
  LET res0 == dict_get(ctx, key, None)
      res == IF ~Truthy(res0) /\ include_preferences
               THEN dict_get(prefs, key, default)
               ELSE res0
  IN IF Truthy(res) THEN res ELSE default

\* Session.to_dict as it would be were preferences copied after context
Session_to_dict_prefs_win(ctx, prefs, include_preferences) ==
  LET base == IF include_preferences THEN prefs ELSE EmptyDict
      mine == (DOMAIN ctx) \ {"buffer"}
  IN [k \in (DOMAIN base) \cup mine |-> IF k \in DOMAIN base THEN base[k] ELSE ctx[k]]

\* Session.to_dict
Session_to_dict(ctx, prefs, include_preferences) ==
  LET base == IF include_preferences THEN prefs ELSE EmptyDict
      mine == (DOMAIN ctx) \ {"buffer"}
  IN [k \in (DOMAIN base) \cup mine |-> IF k \in mine THEN ctx[k] ELSE base[k]]

\* str.endswith, on the keys of the model
endswith(k, suffix) ==
  \/ suffix = "_image" /\ k \in {"temp_image"}
  \/ suffix = "_audio" /\ k \in {"temp_audio"}

\* Session.images
Session_images(ctx) ==
  LET ks == {k \in DOMAIN ctx : endswith(k, "_image") /\ ctx[k] # None}
  IN [k \in ks |-> ctx[k]]

\* Session.audios
Session_audios(ctx) ==
  LET ks == {k \in DOMAIN ctx : endswith(k, "_audio") /\ ctx[k] # None}
  IN [k \in ks |-> ctx[k]]

\* ------------------------------------------------------------ CachedSession

\* What a caller observes of one call: the operation and its arguments (key,
\* arg, and flag for the include_preferences of get), the value or dictionary
\* it returned, whether it called set_chat_context ("none", "ok", "failed")
\* and whether it raised.
Call(op, key, arg, value, dict, write, raised) ==
  [op |-> op, key |-> key, arg |-> arg, flag |-> None, value |-> value,
   dict |-> dict, write |-> write, raised |-> raised]

\* str(b) of a Python bool
PyBool(b) == IF b THEN "True" ELSE "False"

NoneCalled == Call("none", None, None, None, EmptyDict, "none", FALSE)

Snapshot(c, p) == [context |-> c, preferences |-> p]

\* from_cache as it would be were chat_id handed on as the user id
from_cache_user_from_chat(w, uid, cid) ==
  LET data == create_or_get_chat_session(db, uid) IN
  /\ db' = db_after_create_or_get(db, uid)
  /\ user_id' = [user_id EXCEPT ![w] = cid]
  /\ chat_id' = [chat_id EXCEPT ![w] = cid]
  /\ context' = [context EXCEPT ![w] = data.context]
  /\ preferences' = [preferences EXCEPT ![w] = data.preferences]
  /\ dirty' = [dirty EXCEPT ![w] = FALSE]
  /\ live' = [live EXCEPT ![w] = TRUE]
  /\ last_call' = [last_call EXCEPT ![w] = Call("from_cache", uid, cid, None, EmptyDict, "none", FALSE)]
  /\ loaded' = [loaded EXCEPT ![w] = Snapshot(data.context, data.preferences)]
  /\ mutations' = [mutations EXCEPT ![w] = 0]
  /\ writes' = [writes EXCEPT ![w] = 0]
  /\ persisted' = [persisted EXCEPT ![w] = << >>]
  /\ UNCHANGED db_call

\* from_cache as it would be were a loaded, non-empty context counted as a change
from_cache_dirty_on_data(w, uid, cid) ==
  LET data == create_or_get_chat_session(db, uid) IN
  /\ db' = db_after_create_or_get(db, uid)
  /\ user_id' = [user_id EXCEPT ![w] = data.external_user_id]
  /\ chat_id' = [chat_id EXCEPT ![w] = cid]
  /\ context' = [context EXCEPT ![w] = data.context]
  /\ preferences' = [preferences EXCEPT ![w] = data.preferences]
  /\ dirty' = [dirty EXCEPT ![w] = DOMAIN data.context # {}]
  /\ live' = [live EXCEPT ![w] = TRUE]
  /\ last_call' = [last_call EXCEPT ![w] = Call("from_cache", uid, cid, None, EmptyDict, "none", FALSE)]
  /\ loaded' = [loaded EXCEPT ![w] = Snapshot(data.context, data.preferences)]
  /\ mutations' = [mutations EXCEPT ![w] = 0]
  /\ writes' = [writes EXCEPT ![w] = 0]
  /\ persisted' = [persisted EXCEPT ![w] = << >>]
  /\ UNCHANGED db_call

\* CachedSession.from_cache, with CachedSession.__init__ and Session.__init__
from_cache(w, uid, cid) ==
  LET data == create_or_get_chat_session(db, uid) IN
  /\ db' = db_after_create_or_get(db, uid)
  /\ user_id' = [user_id EXCEPT ![w] = data.external_user_id]
  /\ chat_id' = [chat_id EXCEPT ![w] = cid]
  /\ context' = [context EXCEPT ![w] = data.context]
  /\ preferences' = [preferences EXCEPT ![w] = data.preferences]
  /\ dirty' = [dirty EXCEPT ![w] = FALSE]
  /\ live' = [live EXCEPT ![w] = TRUE]
  /\ last_call' = [last_call EXCEPT ![w] = Call("from_cache", uid, cid, None, EmptyDict, "none", FALSE)]
  /\ loaded' = [loaded EXCEPT ![w] = Snapshot(data.context, data.preferences)]
  /\ mutations' = [mutations EXCEPT ![w] = 0]
  /\ writes' = [writes EXCEPT ![w] = 0]
  /\ persisted' = [persisted EXCEPT ![w] = << >>]
  /\ UNCHANGED db_call

\* pop as it would be were dirty raised whether or not the key is present
CachedSession_pop_always_dirty(w, key) ==
  /\ live[w]
  /\ dirty' = [dirty EXCEPT ![w] = TRUE]
  /\ context' = [context EXCEPT ![w] = Session_pop(@, key)]
  /\ last_call' = [last_call EXCEPT ![w] =
                     Call("pop", key, None, Session_pop_result(context[w], key), EmptyDict, "none", FALSE)]
  /\ mutations' = [mutations EXCEPT ![w] = @ + 1]
  /\ persisted' = [persisted EXCEPT ![w] = << >>]
  /\ UNCHANGED <<preferences, user_id, chat_id, live, db, db_call, loaded, writes>>

\* CachedSession.pop
CachedSession_pop(w, key) ==
  /\ live[w]
  /\ dirty' = [dirty EXCEPT ![w] = IF key \in DOMAIN context[w] THEN TRUE ELSE @]
  /\ context' = [context EXCEPT ![w] = Session_pop(@, key)]
  /\ last_call' = [last_call EXCEPT ![w] =
                     Call("pop", key, None, Session_pop_result(context[w], key), EmptyDict, "none", FALSE)]
  /\ mutations' = [mutations EXCEPT ![w] = @ + 1]
  /\ persisted' = [persisted EXCEPT ![w] = << >>]
  /\ UNCHANGED <<preferences, user_id, chat_id, live, db, db_call, loaded, writes>>

\* persist as it would be without the test of dirty
persist_ignoring_dirty(w, write_ok) ==
  /\ live[w]
  /\ db_call' = [user_id |-> user_id[w], context |-> context[w],
                 preferences |-> preferences[w], ok |-> write_ok]
  /\ writes' = [writes EXCEPT ![w] = @ + 1]
  /\ persisted' = [persisted EXCEPT ![w] = Append(@, IF write_ok THEN "ok" ELSE "failed")]
  /\ IF write_ok
       THEN /\ db' = set_chat_context(db, user_id[w], context[w], preferences[w])
            /\ dirty' = [dirty EXCEPT ![w] = FALSE]
            /\ loaded' = [loaded EXCEPT ![w] = Snapshot(context[w], preferences[w])]
            /\ last_call' = [last_call EXCEPT ![w] =
                               Call("persist", None, None, None, EmptyDict, "ok", FALSE)]
       ELSE /\ last_call' = [last_call EXCEPT ![w] =
                               Call("persist", None, None, None, EmptyDict, "failed", TRUE)]
            /\ UNCHANGED <<db, dirty, loaded>>
  /\ UNCHANGED <<context, preferences, user_id, chat_id, live, mutations>>

\* persist as it would be were dirty reset before the write is attempted
persist_reset_first(w, write_ok) ==
  /\ live[w]
  /\ IF dirty[w]
       THEN /\ db_call' = [user_id |-> user_id[w], context |-> context[w],
                           preferences |-> preferences[w], ok |-> write_ok]
            /\ writes' = [writes EXCEPT ![w] = @ + 1]
            /\ persisted' = [persisted EXCEPT ![w] = Append(@, IF write_ok THEN "ok" ELSE "failed")]
            /\ dirty' = [dirty EXCEPT ![w] = FALSE]
            /\ IF write_ok
                 THEN /\ db' = set_chat_context(db, user_id[w], context[w], preferences[w])
                      /\ loaded' = [loaded EXCEPT ![w] = Snapshot(context[w], preferences[w])]
                      /\ last_call' = [last_call EXCEPT ![w] =
                                         Call("persist", None, None, None, EmptyDict, "ok", FALSE)]
                 ELSE /\ last_call' = [last_call EXCEPT ![w] =
                                         Call("persist", None, None, None, EmptyDict, "failed", TRUE)]
                      /\ UNCHANGED <<db, loaded>>
       ELSE /\ last_call' = [last_call EXCEPT ![w] =
                               Call("persist", None, None, None, EmptyDict, "none", FALSE)]
            /\ UNCHANGED <<db, db_call, dirty, loaded, writes, persisted>>
  /\ UNCHANGED <<context, preferences, user_id, chat_id, live, mutations>>

\* persist as it would be were the session's context laid over the stored
\* one instead of replacing it
persist_merging(w, write_ok) ==
  LET old == dict_get(db, user_id[w], Record(user_id[w], EmptyDict, EmptyDict)).context
      merged == [k \in (DOMAIN old) \cup (DOMAIN context[w]) |->
                   IF k \in DOMAIN context[w] THEN context[w][k] ELSE old[k]]
  IN
  /\ live[w]
  /\ IF dirty[w]
       THEN /\ db_call' = [user_id |-> user_id[w], context |-> merged,
                           preferences |-> preferences[w], ok |-> write_ok]
            /\ writes' = [writes EXCEPT ![w] = @ + 1]
            /\ persisted' = [persisted EXCEPT ![w] = Append(@, IF write_ok THEN "ok" ELSE "failed")]
            /\ IF write_ok
                 THEN /\ db' = set_chat_context(db, user_id[w], merged, preferences[w])
                      /\ dirty' = [dirty EXCEPT ![w] = FALSE]
                      /\ loaded' = [loaded EXCEPT ![w] = Snapshot(context[w], preferences[w])]
                      /\ last_call' = [last_call EXCEPT ![w] =
                                         Call("persist", None, None, None, EmptyDict, "ok", FALSE)]
                 ELSE /\ last_call' = [last_call EXCEPT ![w] =
                                         Call("persist", None, None, None, EmptyDict, "failed", TRUE)]
                      /\ UNCHANGED <<db, dirty, loaded>>
       ELSE /\ last_call' = [last_call EXCEPT ![w] =
                               Call("persist", None, None, None, EmptyDict, "none", FALSE)]
            /\ UNCHANGED <<db, db_call, dirty, loaded, writes, persisted>>
  /\ UNCHANGED <<context, preferences, user_id, chat_id, live, mutations>>

\* CachedSession.persist; write_ok is whether db.set_chat_context returns
\* (TRUE) or raises (FALSE) should it be called
persist(w, write_ok) ==
  /\ live[w]
  /\ IF dirty[w]
       THEN /\ db_call' = [user_id |-> user_id[w], context |-> context[w],
                           preferences |-> preferences[w], ok |-> write_ok]
            /\ writes' = [writes EXCEPT ![w] = @ + 1]
            /\ persisted' = [persisted EXCEPT ![w] = Append(@, IF write_ok THEN "ok" ELSE "failed")]
            /\ IF write_ok
                 THEN /\ db' = set_chat_context(db, user_id[w], context[w], preferences[w])
                      /\ dirty' = [dirty EXCEPT ![w] = FALSE]
                      /\ loaded' = [loaded EXCEPT ![w] = Snapshot(context[w], preferences[w])]
                      /\ last_call' = [last_call EXCEPT ![w] =
                                         Call("persist", None, None, None, EmptyDict, "ok", FALSE)]
                 ELSE /\ last_call' = [last_call EXCEPT ![w] =
                                         Call("persist", None, None, None, EmptyDict, "failed", TRUE)]
                      /\ UNCHANGED <<db, dirty, loaded>>
       ELSE /\ last_call' = [last_call EXCEPT ![w] =
                               Call("persist", None, None, None, EmptyDict, "none", FALSE)]
            /\ UNCHANGED <<db, db_call, dirty, loaded, writes, persisted>>
  /\ UNCHANGED <<context, preferences, user_id, chat_id, live, mutations>>

\* set_preference as it would be without the comparison with the old value
CachedSession_set_preference_always_dirty(w, key, val) ==
  /\ live[w]
  /\ dirty' = [dirty EXCEPT ![w] = TRUE]
  /\ preferences' = [preferences EXCEPT ![w] = Session_set_preference(@, key, val)]
  /\ last_call' = [last_call EXCEPT ![w] = Call("set_preference", key, val, None, EmptyDict, "none", FALSE)]
  /\ mutations' = [mutations EXCEPT ![w] = @ + 1]
  /\ persisted' = [persisted EXCEPT ![w] = << >>]
  /\ UNCHANGED <<context, user_id, chat_id, live, db, db_call, loaded, writes>>

\* CachedSession.set_preference
CachedSession_set_preference(w, key, val) ==
  /\ live[w]
  /\ dirty' = [dirty EXCEPT ![w] = IF dict_get(preferences[w], key, None) # val THEN TRUE ELSE @]
  /\ preferences' = [preferences EXCEPT ![w] = Session_set_preference(@, key, val)]
  /\ last_call' = [last_call EXCEPT ![w] = Call("set_preference", key, val, None, EmptyDict, "none", FALSE)]
  /\ mutations' = [mutations EXCEPT ![w] = @ + 1]
  /\ persisted' = [persisted EXCEPT ![w] = << >>]
  /\ UNCHANGED <<context, user_id, chat_id, live, db, db_call, loaded, writes>>

\* set as it would be without the dirty marking
CachedSession_set_no_dirty(w, key, value) ==
  /\ live[w]
  /\ context' = [context EXCEPT ![w] = Session_set(@, key, value)]
  /\ last_call' = [last_call EXCEPT ![w] = Call("set", key, value, None, EmptyDict, "none", FALSE)]
  /\ mutations' = [mutations EXCEPT ![w] = @ + 1]
  /\ persisted' = [persisted EXCEPT ![w] = << >>]
  /\ UNCHANGED <<dirty, preferences, user_id, chat_id, live, db, db_call, loaded, writes>>

\* CachedSession.set
CachedSession_set(w, key, value) ==
  /\ live[w]
  /\ dirty' = [dirty EXCEPT ![w] = IF dict_get(context[w], key, None) # value THEN TRUE ELSE @]
  /\ context' = [context EXCEPT ![w] = Session_set(@, key, value)]
  /\ last_call' = [last_call EXCEPT ![w] = Call("set", key, value, None, EmptyDict, "none", FALSE)]
  /\ mutations' = [mutations EXCEPT ![w] = @ + 1]
  /\ persisted' = [persisted EXCEPT ![w] = << >>]
  /\ UNCHANGED <<preferences, user_id, chat_id, live, db, db_call, loaded, writes>>

\* clear as it would be were dirty assigned len(context) > 0 instead of raised
CachedSession_clear_assigns_dirty(w, clear_user) ==
  /\ live[w]
  /\ dirty' = [dirty EXCEPT ![w] = Cardinality(DOMAIN context[w]) > 0]
  /\ context' = [context EXCEPT ![w] = Session_clear(@, clear_user)]
  /\ last_call' = [last_call EXCEPT ![w] = Call("clear", None, PyBool(clear_user), None, EmptyDict, "none", FALSE)]
  /\ mutations' = [mutations EXCEPT ![w] = @ + 1]
  /\ persisted' = [persisted EXCEPT ![w] = << >>]
  /\ UNCHANGED <<preferences, user_id, chat_id, live, db, db_call, loaded, writes>>

\* clear as it would be without the test of len(context)
CachedSession_clear_always_dirty(w, clear_user) ==
  /\ live[w]
  /\ dirty' = [dirty EXCEPT ![w] = TRUE]
  /\ context' = [context EXCEPT ![w] = Session_clear(@, clear_user)]
  /\ last_call' = [last_call EXCEPT ![w] = Call("clear", None, PyBool(clear_user), None, EmptyDict, "none", FALSE)]
  /\ mutations' = [mutations EXCEPT ![w] = @ + 1]
  /\ persisted' = [persisted EXCEPT ![w] = << >>]
  /\ UNCHANGED <<preferences, user_id, chat_id, live, db, db_call, loaded, writes>>

\* CachedSession.clear
CachedSession_clear(w, clear_user) ==
  /\ live[w]
  /\ dirty' = [dirty EXCEPT ![w] = IF Cardinality(DOMAIN context[w]) > 0 THEN TRUE ELSE @]
  /\ context' = [context EXCEPT ![w] = Session_clear(@, clear_user)]
  /\ last_call' = [last_call EXCEPT ![w] = Call("clear", None, PyBool(clear_user), None, EmptyDict, "none", FALSE)]
  /\ mutations' = [mutations EXCEPT ![w] = @ + 1]
  /\ persisted' = [persisted EXCEPT ![w] = << >>]
  /\ UNCHANGED <<preferences, user_id, chat_id, live, db, db_call, loaded, writes>>

\* The operations CachedSession inherits unchanged from Session read the
\* session and leave it as it is.
ReadFrame == UNCHANGED <<context, preferences, dirty, user_id, chat_id, live, db,
                         db_call, loaded, mutations, writes, persisted>>

\* Session.get on a CachedSession
CachedSession_get(w, key, default, include_preferences) ==
  /\ live[w]
  /\ last_call' = [last_call EXCEPT ![w] =
       [Call("get", key, default,
             Session_get(context[w], preferences[w], key, default, include_preferences),
             EmptyDict, "none", FALSE)
          EXCEPT !.flag = PyBool(include_preferences)]]
  /\ ReadFrame

\* Session.to_dict on a CachedSession
CachedSession_to_dict(w, include_preferences) ==
  /\ live[w]
  /\ last_call' = [last_call EXCEPT ![w] =
       Call("to_dict", None, PyBool(include_preferences), None,
            Session_to_dict(context[w], preferences[w], include_preferences),
            "none", FALSE)]
  /\ ReadFrame

\* Session.images on a CachedSession
CachedSession_images(w) ==
  /\ live[w]
  /\ last_call' = [last_call EXCEPT ![w] =
       Call("images", None, None, None, Session_images(context[w]), "none", FALSE)]
  /\ ReadFrame

\* Session.audios on a CachedSession
CachedSession_audios(w) ==
  /\ live[w]
  /\ last_call' = [last_call EXCEPT ![w] =
       Call("audios", None, None, None, Session_audios(context[w]), "none", FALSE)]
  /\ ReadFrame

\* -------------------------------------------------------------- initial state

\* The records a store may hold for a user when the program starts.
InitRecords ==
  {Record("u1", c, p) : c \in Dicts(Keys, {None, "x"}), p \in Dicts(PrefKeys, {"x"})}

InitStores == {EmptyDict} \cup {[u \in {"u1"} |-> r] : r \in InitRecords}

InitSessions ==
  /\ context = [w \in Workers |-> EmptyDict]
  /\ preferences = [w \in Workers |-> EmptyDict]
  /\ dirty = [w \in Workers |-> FALSE]
  /\ user_id = [w \in Workers |-> None]
  /\ chat_id = [w \in Workers |-> None]
  /\ live = [w \in Workers |-> FALSE]
  /\ db_call = NoCall
  /\ last_call = [w \in Workers |-> NoneCalled]
  /\ loaded = [w \in Workers |-> Snapshot(EmptyDict, EmptyDict)]
  /\ mutations = [w \in Workers |-> 0]
  /\ writes = [w \in Workers |-> 0]
  /\ persisted = [w \in Workers |-> << >>]
  /\ nops = 0

InitRace ==
  /\ wpc = [w \in Workers |-> "idle"]
  /\ job = [w \in Workers |-> [key |-> None, value |-> None]]
  /\ last_writer = 0
  /\ race_log = << >>

InitBot ==
  /\ bot_state = "created"
  /\ next_thread = 1
  /\ started = [w \in Workers |-> FALSE]
  /\ stop_signal = [w \in Workers |-> FALSE]
  /\ internal_queue = << >>
  /\ delivered = [w \in Workers |-> << >>]
  /\ enqueued = 0
  /\ pre_listen = 0

Init ==
  /\ db \in InitStores
  /\ InitSessions
  /\ InitRace
  /\ InitBot

\* ------------------------------------------- one session used by one worker

W1 == 1

\* One more operation of the run
Step == nops < MaxOps /\ nops' = nops + 1 /\ UNCHANGED <<raceVars, botVars>>

OpFromCache == \E u \in Users, c \in Chats : from_cache(W1, u, c) /\ Step
OpPop == \E k \in Keys : CachedSession_pop(W1, k) /\ Step
OpPersist == \E ok \in BOOLEAN : persist(W1, ok) /\ Step
OpSetPreference == \E k \in PrefKeys, v \in Values : CachedSession_set_preference(W1, k, v) /\ Step
OpSet == \E k \in Keys, v \in Values : CachedSession_set(W1, k, v) /\ Step
OpClear == \E cu \in BOOLEAN : CachedSession_clear(W1, cu) /\ Step
OpGet == \E k \in Keys, d \in {None, "y"}, ip \in BOOLEAN : CachedSession_get(W1, k, d, ip) /\ Step
OpToDict == \E ip \in BOOLEAN : CachedSession_to_dict(W1, ip) /\ Step
OpImages == CachedSession_images(W1) /\ Step
OpAudios == CachedSession_audios(W1) /\ Step

Next ==
  \/ OpFromCache
  \/ OpPop
  \/ OpPersist
  \/ OpSetPreference
  \/ OpSet
  \/ OpClear
  \/ OpGet
  \/ OpToDict
  \/ OpImages
  \/ OpAudios

Spec == Init /\ [][Next]_vars

\* ------------------------------------------------ claims on a single session

\* A step of Spec: one operation on the session of W1.
SessionStep == nops' = nops + 1

\* A step that is a call of persist
PersistStep == SessionStep /\ last_call'[W1].op = "persist"

\* The call c called set_chat_context
Issued(c) == c.write # "none"

\* The arguments persist hands to set_chat_context
FullPair(call, w) ==
  /\ call.user_id = user_id[w]
  /\ call.context = context[w]
  /\ call.preferences = preferences[w]

\* C1 (as claimed): persist issues no set_chat_context call when dirty is
\* false, and the persist calls made since the last mutating call (or the
\* load) issue at most one set_chat_context call in total.
C1_AtMostOneCall ==
  [][PersistStep =>
       /\ (~dirty[W1] => ~Issued(last_call'[W1]))
       /\ Len(persisted'[W1]) <= 1]_vars

\* C1 (amended): persist issues no set_chat_context call and leaves the store
\* alone when dirty is false; of the set_chat_context calls issued by the
\* persist calls made since the last mutating call (or the load), every one
\* but the last failed, so at most one of them was applied by the store.
C1_AtMostOneAppliedWrite ==
  [][PersistStep =>
       /\ (~dirty[W1] => /\ ~Issued(last_call'[W1])
                         /\ db' = db /\ db_call' = db_call /\ writes' = writes)
       /\ \A i \in 1..(Len(persisted'[W1]) - 1) : persisted'[W1][i] = "failed"]_vars

\* C1 witness: a persist that issued nothing, after a persist whose write was
\* applied and with no mutating call between the two.
C1_Witness ==
  /\ last_call[W1].op = "persist"
  /\ last_call[W1].write = "none"
  /\ persisted[W1] = <<"ok">>

\* C2 (as claimed): persist with no mutating call since from_cache issues no
\* write; from_cache, one set(k, v) and then persist issues exactly one
\* write, carrying the session's current (context, preferences).  Stated
\* here for the keys k the loaded context holds: what set does for a key
\* that is not present is the subject of C3.
C2_SetThenPersistWrites ==
  [][PersistStep =>
       /\ (mutations[W1] = 0 => ~Issued(last_call'[W1]) /\ writes'[W1] = 0)
       /\ (mutations[W1] = 1 /\ last_call[W1].op = "set" /\ writes[W1] = 0
              /\ last_call[W1].key \in DOMAIN loaded[W1].context =>
             /\ Issued(last_call'[W1])
             /\ writes'[W1] = 1
             /\ FullPair(db_call', W1))]_vars

\* The one set(k, v) since the load gave k a value other than the one
\* context.get(k) returned before it (None for a key not present).
SetChangedValue ==
  dict_get(loaded[W1].context, last_call[W1].key, None) # last_call[W1].arg

\* C2 (amended): persist with no mutating call since from_cache issues no
\* write; from_cache, one set(k, v) and then persist issues exactly one write,
\* carrying the session's current (context, preferences), when v differs from
\* what context.get(k) returned before the set (None for an absent key), and
\* no write when v equals it.
C2_ChangingSetThenPersistWrites ==
  [][PersistStep =>
       /\ (mutations[W1] = 0 => ~Issued(last_call'[W1]) /\ writes'[W1] = 0)
       /\ (mutations[W1] = 1 /\ last_call[W1].op = "set" /\ writes[W1] = 0 =>
             IF SetChangedValue
               THEN /\ Issued(last_call'[W1])
                    /\ writes'[W1] = 1
                    /\ FullPair(db_call', W1)
                    /\ (last_call'[W1].write = "ok" =>
                          db'[user_id[W1]] = Record(user_id[W1], context[W1], preferences[W1]))
               ELSE ~Issued(last_call'[W1]) /\ writes'[W1] = 0 /\ db' = db)]_vars

\* C2 witness: one mutating call since the load, which set a key to "y" (no
\* stored record holds "y" at the start), then a persist whose single write
\* the store applied, with both maps non-empty.
C2_Witness ==
  /\ last_call[W1].op = "persist"
  /\ last_call[W1].write = "ok"
  /\ mutations[W1] = 1
  /\ writes[W1] = 1
  /\ \E k \in DOMAIN context[W1] : context[W1][k] = "y"
  /\ preferences[W1] # EmptyDict
  /\ db[user_id[W1]] = Record(user_id[W1], context[W1], preferences[W1])

\* C3 (as claimed): whenever the session's (context, preferences) differs
\* from what it was at the last load or successful persist, dirty is true.
C3_DivergedImpliesDirty ==
  \A w \in Workers :
    live[w] /\ Snapshot(context[w], preferences[w]) # loaded[w] => dirty[w]

\* C8: a persist whose write fails raises, leaves dirty true and leaves
\* context, preferences and the store as they were; and persist on a dirty
\* session always attempts the write, so the next persist tries again.
C8_FailedWriteKeepsDirty ==
  [][PersistStep =>
       /\ (dirty[W1] => Issued(last_call'[W1]))
       /\ (last_call'[W1].raised <=> last_call'[W1].write = "failed")
       /\ (last_call'[W1].write = "failed" =>
             /\ dirty[W1] /\ dirty'[W1]
             /\ context' = context /\ preferences' = preferences
             /\ db' = db /\ loaded' = loaded)]_vars

\* C8 witness: a write that failed and, with no mutating call in between, a
\* later persist that issued it again and succeeded.
C8_Witness ==
  /\ last_call[W1].op = "persist"
  /\ persisted[W1] = <<"failed", "ok">>
  /\ ~dirty[W1]

\* C9: dirty goes from true to false on a session only in a persist whose
\* write succeeded (from_cache builds a new session, it resets none).
C9_OnlyPersistResetsDirty ==
  [][\A w \in Workers :
       dirty[w] /\ ~dirty'[w] /\ last_call'[w].op # "from_cache" =>
         last_call'[w].op = "persist" /\ last_call'[w].write = "ok"]_vars

\* C9 witness: a session still dirty after two or more mutating calls, the
\* last of them clear, and never persisted.
C9_Witness ==
  /\ dirty[W1]
  /\ last_call[W1].op = "clear"
  /\ mutations[W1] >= 2
  /\ writes[W1] = 0

\* C10: right after from_cache the session is not dirty, whatever record the
\* store returned.
C10_CleanAfterLoad ==
  \A w \in Workers : last_call[w].op = "from_cache" => live[w] /\ ~dirty[w]

\* C10 witness: a session just built from a record whose context and
\* preferences are both non-empty.
C10_Witness ==
  /\ last_call[W1].op = "from_cache"
  /\ DOMAIN context[W1] = Keys
  /\ preferences[W1] # EmptyDict

\* A step that is a call of the operation op
CallStep(op) == SessionStep /\ last_call'[W1].op = op

\* C14: set_preference(k, v) on a session whose preferences hold v under k
\* leaves dirty and preferences as they were; so does it leave context and
\* user_id, which with dirty and preferences are all that persist reads: a
\* persist after the call issues the write a persist before it would have
\* issued, and no other.
C14_SamePreferenceChangesNothing ==
  [][CallStep("set_preference")
       /\ last_call'[W1].key \in DOMAIN preferences[W1]
       /\ preferences[W1][last_call'[W1].key] = last_call'[W1].arg
     => /\ dirty' = dirty
        /\ preferences' = preferences
        /\ context' = context
        /\ user_id' = user_id]_vars

\* C14 witness: a clean session, persisted once, whose last call was a
\* set_preference of the value its preferences already held.
C14_Witness ==
  /\ last_call[W1].op = "set_preference"
  /\ ~dirty[W1]
  /\ writes[W1] = 1
  /\ preferences[W1] = loaded[W1].preferences
  /\ last_call[W1].key \in DOMAIN preferences[W1]
  /\ preferences[W1][last_call[W1].key] = last_call[W1].arg

\* C15: clear on an empty context leaves dirty as it was; clear on a context
\* that is not empty leaves dirty true.
C15_ClearMarksDirtyIffNonEmpty ==
  [][CallStep("clear") =>
       IF context[W1] = EmptyDict THEN dirty'[W1] = dirty[W1] ELSE dirty'[W1]]_vars

\* C15 witness: a clean session after a clear of the empty context it was
\* loaded with.
C15_Witness ==
  /\ last_call[W1].op = "clear"
  /\ mutations[W1] = 1
  /\ loaded[W1].context = EmptyDict
  /\ ~dirty[W1]

\* C17: pop(key) of a key the context holds removes the key, returns its
\* value and leaves dirty true; pop(key) of a key the context does not hold
\* returns None and leaves context and dirty as they were; preferences are
\* left as they were in both cases.
C17_PopRemovesAndMarksDirty ==
  [][CallStep("pop") =>
       LET key == last_call'[W1].key IN
       /\ preferences' = preferences
       /\ IF key \in DOMAIN context[W1]
            THEN /\ last_call'[W1].value = context[W1][key]
                 /\ DOMAIN context'[W1] = (DOMAIN context[W1]) \ {key}
                 /\ \A k \in DOMAIN context'[W1] : context'[W1][k] = context[W1][k]
                 /\ dirty'[W1]
            ELSE /\ last_call'[W1].value = None
                 /\ context' = context
                 /\ dirty' = dirty]_vars

\* C17 witness: a session still clean after the pop of a key it does not
\* hold, while it holds another.
C17_Witness ==
  /\ last_call[W1].op = "pop"
  /\ last_call[W1].key \notin DOMAIN loaded[W1].context
  /\ context[W1] # EmptyDict
  /\ mutations[W1] = 1
  /\ ~dirty[W1]

Racers == {1, 2}
RaceUser == "u1"
RaceChat == "c1"
\* The value the updates set; no record of the store holds it at the start.
RaceValue == "y"

\* The handlers of the two updates set different keys.
RaceJobs ==
  {j \in [Workers -> [key : Keys \cup {None}, value : {RaceValue, None}]] :
     /\ \A w \in Racers : j[w].key \in Keys /\ j[w].value = RaceValue
     /\ \A w \in Workers \ Racers : j[w].key = None /\ j[w].value = None
     /\ j[1].key # j[2].key}

InitRacing ==
  /\ db \in InitStores
  /\ InitSessions
  /\ wpc = [w \in Workers |-> "idle"]
  /\ job \in RaceJobs
  /\ last_writer = 0
  /\ race_log = << >>
  /\ InitBot

Event(w, ev) == [w |-> w, ev |-> ev]

\* The worker builds the session of the update's chat.
RaceLoad(w) ==
  /\ wpc[w] = "idle"
  /\ from_cache(w, RaceUser, RaceChat)
  /\ wpc' = [wpc EXCEPT ![w] = "loaded"]
  /\ race_log' = Append(race_log, Event(w, "load"))
  /\ UNCHANGED <<job, last_writer, nops, botVars>>

\* The handler of the update changes the session.
RaceHandle(w) ==
  /\ wpc[w] = "loaded"
  /\ CachedSession_set(w, job[w].key, job[w].value)
  /\ wpc' = [wpc EXCEPT ![w] = "handled"]
  /\ UNCHANGED <<job, last_writer, race_log, nops, botVars>>

\* The session persists itself at the end of the cycle.
RacePersist(w) ==
  /\ wpc[w] = "handled"
  /\ \E ok \in BOOLEAN : persist(w, ok)
  /\ wpc' = [wpc EXCEPT ![w] = "done"]
  /\ last_writer' = IF last_call'[w].write = "ok" THEN w ELSE last_writer
  /\ race_log' = IF last_call'[w].write = "ok"
                   THEN Append(race_log, Event(w, "write"))
                   ELSE race_log
  /\ UNCHANGED <<job, nops, botVars>>

NextRacing == \E w \in Racers : RaceLoad(w) \/ RaceHandle(w) \/ RacePersist(w)

SpecRace == InitRacing /\ [][NextRacing]_vars

\* ------------------------------------------------------ claims on the race

AllDone == \A w \in Racers : wpc[w] = "done"

\* The store applied a write of worker w
Applied(w) == \E i \in 1..Len(race_log) : race_log[i] = Event(w, "write")

\* The place of an event in the log
At(w, ev) == CHOOSE i \in 1..Len(race_log) : race_log[i] = Event(w, ev)

\* The update worker w processed is in the stored context
UpdateStored(w) ==
  /\ RaceUser \in DOMAIN db
  /\ job[w].key \in DOMAIN db[RaceUser].context
  /\ db[RaceUser].context[job[w].key] = job[w].value

\* C4: last persist wins.  Once both workers are done the store holds the
\* last writer's context, and the update of a worker is in the store exactly
\* if its write was applied and it either was the last write or came before
\* the last writer loaded its session: an update written after the last
\* writer's load and before its persist is lost.
C4_LastPersistWins ==
  AllDone =>
    /\ last_writer # 0 => db[RaceUser].context = context[last_writer]
    /\ \A v \in Racers :
         UpdateStored(v) <=>
           /\ Applied(v)
           /\ \/ v = last_writer
              \/ At(v, "write") < At(last_writer, "load")

\* C4 witness: both workers are done, the store applied the write of each,
\* and the stored context holds only one of the two updates.
C4_Witness ==
  /\ AllDone
  /\ \A v \in Racers : Applied(v)
  /\ \E v \in Racers : ~UpdateStored(v)
  /\ \E v \in Racers : UpdateStored(v)


\* ------------------------------------------------------------- dispatcher

\* Nothing of the session layer moves while the dispatcher is looked at.
BotFrame == UNCHANGED <<sessVars, nops, raceVars>>

InitDispatcher ==
  /\ db = EmptyDict
  /\ InitSessions
  /\ InitRace
  /\ InitBot

\* BaseBot.enqueue as it would be were the update not put on the queue
enqueue_dropping ==
  /\ enqueued < MaxUpdates
  /\ enqueued' = enqueued + 1
  /\ pre_listen' = IF bot_state = "created" THEN pre_listen + 1 ELSE pre_listen
  /\ UNCHANGED <<internal_queue, bot_state, next_thread, started, stop_signal, delivered>>
  /\ BotFrame

\* BaseBot.enqueue: the update (numbered in the order of the calls) is put on
\* the queue, whatever listen() is doing
enqueue ==
  /\ enqueued < MaxUpdates
  /\ internal_queue' = Append(internal_queue, enqueued + 1)
  /\ enqueued' = enqueued + 1
  /\ pre_listen' = IF bot_state = "created" THEN pre_listen + 1 ELSE pre_listen
  /\ UNCHANGED <<bot_state, next_thread, started, stop_signal, delivered>>
  /\ BotFrame

\* listen() is invoked: loop.run_until_complete(self.initialize()) begins
listen_initialize ==
  /\ bot_state = "created"
  /\ bot_state' = "initializing"
  /\ UNCHANGED <<next_thread, started, stop_signal, internal_queue, delivered, enqueued,
                 pre_listen>>
  /\ BotFrame

\* initialize() returns: listen goes on to start the threads
initialize_returns ==
  /\ bot_state = "initializing"
  /\ bot_state' = "starting"
  /\ next_thread' = 1
  /\ UNCHANGED <<started, stop_signal, internal_queue, delivered, enqueued, pre_listen>>
  /\ BotFrame

\* initialize() raises: run_until_complete raises and listen() is left
initialize_raises ==
  /\ bot_state = "initializing"
  /\ bot_state' = "aborted"
  /\ UNCHANGED <<next_thread, started, stop_signal, internal_queue, delivered, enqueued,
                 pre_listen>>
  /\ BotFrame

\* [t.start() for t in self.threads] as it would be were it placed before
\* the initialization had returned
start_thread_during_init ==
  /\ bot_state \in {"initializing", "starting"}
  /\ next_thread <= NumWorkers
  /\ started' = [started EXCEPT ![next_thread] = TRUE]
  /\ next_thread' = next_thread + 1
  /\ UNCHANGED <<bot_state, stop_signal, internal_queue, delivered, enqueued, pre_listen>>
  /\ BotFrame

\* [t.start() for t in self.threads]: one iteration
start_thread ==
  /\ bot_state = "starting"
  /\ next_thread <= NumWorkers
  /\ started' = [started EXCEPT ![next_thread] = TRUE]
  /\ next_thread' = next_thread + 1
  /\ UNCHANGED <<bot_state, stop_signal, internal_queue, delivered, enqueued, pre_listen>>
  /\ BotFrame

\* every thread is started: self.start() is called
call_start ==
  /\ bot_state = "starting"
  /\ next_thread > NumWorkers
  /\ bot_state' = "serving"
  /\ UNCHANGED <<next_thread, started, stop_signal, internal_queue, delivered, enqueued,
                 pre_listen>>
  /\ BotFrame

\* self.start() returns: listen goes on to stop the senders
start_returns ==
  /\ bot_state = "serving"
  /\ bot_state' = "stopping"
  /\ next_thread' = 1
  /\ UNCHANGED <<started, stop_signal, internal_queue, delivered, enqueued, pre_listen>>
  /\ BotFrame

\* self.start() raises: listen() is left with the exception
start_raises ==
  /\ bot_state = "serving"
  /\ bot_state' = "crashed"
  /\ UNCHANGED <<next_thread, started, stop_signal, internal_queue, delivered, enqueued,
                 pre_listen>>
  /\ BotFrame

\* [s.stop() for s in self.senders]: one iteration
stop_sender ==
  /\ bot_state = "stopping"
  /\ next_thread <= NumWorkers
  /\ stop_signal' = [stop_signal EXCEPT ![next_thread] = TRUE]
  /\ next_thread' = next_thread + 1
  /\ UNCHANGED <<bot_state, started, internal_queue, delivered, enqueued, pre_listen>>
  /\ BotFrame

\* listen() returning as it would were the last sender left out of the loop
listen_returns_early ==
  /\ bot_state = "stopping"
  /\ next_thread >= NumWorkers
  /\ bot_state' = "stopped"
  /\ UNCHANGED <<next_thread, started, stop_signal, internal_queue, delivered, enqueued,
                 pre_listen>>
  /\ BotFrame

\* every sender is stopped: listen() returns
listen_returns ==
  /\ bot_state = "stopping"
  /\ next_thread > NumWorkers
  /\ bot_state' = "stopped"
  /\ UNCHANGED <<next_thread, started, stop_signal, internal_queue, delivered, enqueued,
                 pre_listen>>
  /\ BotFrame

\* The loop of worker w (handler.listen), between two updates: it takes the
\* update at the head of the queue unless it was told to stop.
worker_get(w) ==
  /\ started[w]
  /\ ~stop_signal[w]
  /\ internal_queue # << >>
  /\ delivered' = [delivered EXCEPT ![w] = Append(@, Head(internal_queue))]
  /\ internal_queue' = Tail(internal_queue)
  /\ UNCHANGED <<bot_state, next_thread, started, stop_signal, enqueued, pre_listen>>
  /\ BotFrame

NextDispatcher ==
  \/ enqueue
  \/ listen_initialize
  \/ initialize_returns
  \/ initialize_raises
  \/ start_thread
  \/ call_start
  \/ start_returns
  \/ start_raises
  \/ stop_sender
  \/ listen_returns
  \/ \E w \in Workers : worker_get(w)

SpecBot == InitDispatcher /\ [][NextDispatcher]_vars


\* ------------------------------------------------ claims on the dispatcher

\* How many times update u is in the sequence q
Count(q, u) == Cardinality({i \in 1..Len(q) : q[i] = u})

\* The deliveries of update u: the worker and the place in what it took
Deliveries(u) ==
  {d \in UNION {{<<w, i>> : i \in 1..Len(delivered[w])} : w \in Workers} :
     delivered[d[1]][d[2]] = u}

\* C5: every update handed to enqueue is either still on the queue, once, or
\* was taken by exactly one worker, once: none is taken twice, none is
\* dropped, whenever it was enqueued and however the workers interleave.
C5_DeliveredExactlyOnce ==
  \A u \in 1..enqueued : Count(internal_queue, u) + Cardinality(Deliveries(u)) = 1

\* C5 witness: MaxUpdates updates were enqueued before listen() was invoked,
\* the pool drained the queue and every worker took part.
C5_Witness ==
  /\ pre_listen = MaxUpdates
  /\ internal_queue = << >>
  /\ \A w \in Workers : delivered[w] # << >>

\* The positions of listen() at which initialize() has returned
Initialized == {"starting", "serving", "stopping", "stopped", "crashed"}

\* C6: a thread is started only once initialize() has returned; when
\* initialize() raises, listen() is over: no thread is started then or later
\* and self.start() is never called.
C6_InitBeforeWorkers ==
  [][/\ (\E w \in Workers : started'[w]) => bot_state' \in Initialized
     /\ bot_state' = "aborted" => \A w \in Workers : ~started'[w]
     /\ bot_state = "aborted" => bot_state' = "aborted" /\ started' = started]_vars

\* C6 witness: initialize() raised while updates were waiting on the queue.
C6_Witness ==
  /\ bot_state = "aborted"
  /\ internal_queue # << >>
  /\ \A w \in Workers : ~started[w]

\* The dispatcher state of the specification a position of listen() is in
\* (0: listen() was left by an exception)
Phase(st) ==
  CASE st = "created" -> 1
    [] st = "initializing" -> 2
    [] st \in {"starting", "serving"} -> 3
    [] st = "stopping" -> 4
    [] st = "stopped" -> 5
    [] OTHER -> 0

\* C7: the dispatcher goes Created, Initializing, Running, Stopping, Stopped
\* one after the other (or leaves by an exception of initialize() or
\* start()); a sender is told to stop only after self.start() returned, and
\* listen() returns only after every sender was told to stop.
C7_LifecycleOrder ==
  [][/\ bot_state' # bot_state =>
          \/ Phase(bot_state') \in {Phase(bot_state), Phase(bot_state) + 1}
          \/ <<bot_state, bot_state'>> \in {<<"initializing", "aborted">>, <<"serving", "crashed">>}
     /\ \A w \in Workers : stop_signal'[w] => bot_state' \in {"stopping", "stopped"}
     /\ bot_state' = "stopped" => \A w \in Workers : stop_signal'[w]]_vars

\* C7 witness: listen() has returned, every worker ran and was told to stop.
C7_Witness ==
  /\ bot_state = "stopped"
  /\ \A w \in Workers : started[w] /\ stop_signal[w]
  /\ \E w \in Workers : delivered[w] # << >>

\* -------------------------------------------- the reads of a loaded session

\* The keys of the loaded records: a plain key, one key for each of the two
\* media suffixes and the key to_dict leaves out.
PureKeys == {"k1", "temp_image", "temp_audio", "buffer"}
\* A value that is None, one that is empty and one that is neither
PureValues == {None, "", "x"}
\* The values set is called with
PureSetValues == {None, "", "z"}
\* The defaults get is called with
PureDefaults == {None, "", "d"}

\* The records the store may hold for the user the session is loaded for.
PureRecords ==
  {Record("u1", c, p) : c \in Dicts(PureKeys, PureValues),
                        p \in Dicts({"k1", "buffer"}, {"y"})}

\* The session of W1 right after from_cache(db, "u1", "c1") returned r.
Loaded(r) ==
  /\ db = [u \in {"u1"} |-> r]
  /\ context = [w \in Workers |-> IF w = W1 THEN r.context ELSE EmptyDict]
  /\ preferences = [w \in Workers |-> IF w = W1 THEN r.preferences ELSE EmptyDict]
  /\ dirty = [w \in Workers |-> FALSE]
  /\ user_id = [w \in Workers |-> IF w = W1 THEN r.external_user_id ELSE None]
  /\ chat_id = [w \in Workers |-> IF w = W1 THEN "c1" ELSE None]
  /\ live = [w \in Workers |-> w = W1]
  /\ db_call = NoCall
  /\ last_call = [w \in Workers |->
                    IF w = W1
                      THEN Call("from_cache", "u1", "c1", None, EmptyDict, "none", FALSE)
                      ELSE NoneCalled]
  /\ loaded = [w \in Workers |->
                 IF w = W1 THEN Snapshot(r.context, r.preferences)
                           ELSE Snapshot(EmptyDict, EmptyDict)]
  /\ mutations = [w \in Workers |-> 0]
  /\ writes = [w \in Workers |-> 0]
  /\ persisted = [w \in Workers |-> << >>]
  /\ nops = 0

InitPure ==
  /\ \E r \in PureRecords : Loaded(r)
  /\ InitRace
  /\ InitBot

\* One call on the session as loaded
PureGet ==
  /\ nops = 0
  /\ \E k \in PureKeys, d \in PureDefaults, ip \in BOOLEAN : CachedSession_get(W1, k, d, ip)
  /\ Step

PureSet ==
  /\ nops = 0
  /\ \E k \in PureKeys, v \in PureSetValues : CachedSession_set(W1, k, v)
  /\ Step

PureClear ==
  /\ nops = 0
  /\ \E cu \in BOOLEAN : CachedSession_clear(W1, cu)
  /\ Step

PureToDict ==
  /\ nops = 0
  /\ \E ip \in BOOLEAN : CachedSession_to_dict(W1, ip)
  /\ Step

PureImages == nops = 0 /\ CachedSession_images(W1) /\ Step

PureAudios == nops = 0 /\ CachedSession_audios(W1) /\ Step

\* get of the key that was just set
PureGetAfterSet ==
  /\ nops = 1
  /\ last_call[W1].op = "set"
  /\ \E d \in PureDefaults, ip \in BOOLEAN : CachedSession_get(W1, last_call[W1].key, d, ip)
  /\ Step

NextPure ==
  \/ PureGet
  \/ PureSet
  \/ PureClear
  \/ PureToDict
  \/ PureImages
  \/ PureAudios
  \/ PureGetAfterSet

SpecPure == InitPure /\ [][NextPure]_vars

\* ------------------------------------- claims on the reads of a loaded session

\* The last call on the session of W1 was get
Got == last_call[W1].op = "get"

\* The last call was the get(k) that follows set(k, v)
GotAfterSet == Got /\ nops = 2

\* A step that is the get(k) that follows set(k, v)
GetAfterSetStep ==
  /\ last_call[W1].op = "set"
  /\ last_call'[W1].op = "get"
  /\ last_call'[W1].key = last_call[W1].key

\* C11 (as claimed): set(k, v) followed by get(k) returns v, for every key k
\* and every value v, the empty ones included, whatever preferences hold for k.
C11_SetThenGetReturnsValue ==
  [][GetAfterSetStep => last_call'[W1].value = last_call[W1].arg]_vars

\* C11 (amended): set(k, v) followed by get(k) returns v when v is truthy,
\* whatever preferences hold for k; when v is falsy it returns what get
\* returns for a key context does not hold: the preference of k if
\* include_preferences is true and that preference is truthy, the default
\* otherwise.
C11_SetThenGetReturnsTruthyValue ==
  [][GetAfterSetStep =>
       LET k == last_call[W1].key
           v == last_call[W1].arg
           prefs == preferences[W1]
       IN IF Truthy(v)
            THEN last_call'[W1].value = v
            ELSE last_call'[W1].value =
                   IF last_call'[W1].flag = "True" /\ k \in DOMAIN prefs /\ Truthy(prefs[k])
                     THEN prefs[k]
                     ELSE last_call'[W1].arg]_vars

\* C11 witness: set(k, v) with a truthy v, over another value of the context
\* and with a preference for k, and get(k) returning v.
C11_Witness ==
  /\ GotAfterSet
  /\ last_call[W1].key = "k1"
  /\ loaded[W1].context = [x \in {"k1"} |-> "x"]
  /\ "k1" \in DOMAIN preferences[W1]
  /\ last_call[W1].flag = "True"
  /\ last_call[W1].value = "z"

\* C12: get(key) of a key context holds with a truthy value returns that
\* value, whatever preferences hold for the key, whatever include_preferences
\* and the default are.
C12_TruthyContextValueWins ==
  Got /\ last_call[W1].key \in DOMAIN context[W1] /\ Truthy(context[W1][last_call[W1].key])
    => last_call[W1].value = context[W1][last_call[W1].key]

\* C12 witness: get, with include_preferences and a default, of a key that
\* context and preferences both hold with different truthy values.
C12_Witness ==
  /\ Got
  /\ nops = 1
  /\ last_call[W1].key = "k1"
  /\ last_call[W1].flag = "True"
  /\ last_call[W1].arg = "d"
  /\ "k1" \in DOMAIN context[W1]
  /\ context[W1]["k1"] = "x"
  /\ "k1" \in DOMAIN preferences[W1]
  /\ preferences[W1]["k1"] = "y"
  /\ last_call[W1].value = "x"

\* C13: get(key, default=D) of a key neither context nor preferences hold
\* returns D, for every D and both values of include_preferences.
C13_AbsentKeyGivesDefault ==
  Got /\ last_call[W1].key \notin DOMAIN context[W1]
      /\ last_call[W1].key \notin DOMAIN preferences[W1]
    => last_call[W1].value = last_call[W1].arg

\* C13 witness: get without preferences, with a default that is not None, of
\* a key held nowhere, on a session that holds other keys.
C13_Witness ==
  /\ Got
  /\ last_call[W1].key = "temp_image"
  /\ "temp_image" \notin DOMAIN context[W1]
  /\ context[W1] # EmptyDict
  /\ preferences[W1] # EmptyDict
  /\ last_call[W1].flag = "False"
  /\ last_call[W1].arg = "d"
  /\ last_call[W1].value = "d"

\* C16: clear(clear_user) leaves context empty and preferences as they were,
\* for clear_user True and for clear_user False alike, whatever context held,
\* the keys of temporary media included.
C16_ClearEmptiesContextOnly ==
  last_call[W1].op = "clear" =>
    /\ context[W1] = EmptyDict
    /\ preferences[W1] = loaded[W1].preferences

\* C16 witness: clear(clear_user=False) of a context that held an image and
\* an audio, on a session with preferences.
C16_Witness ==
  /\ last_call[W1].op = "clear"
  /\ last_call[W1].arg = "False"
  /\ loaded[W1].context = [x \in {"temp_image", "temp_audio"} |-> "x"]
  /\ preferences[W1] # EmptyDict
  /\ context[W1] = EmptyDict

\* The entries of ctx under a key with the suffix whose value is not empty
NonEmptyMedia(ctx, suffix) ==
  LET ks == {k \in DOMAIN ctx : endswith(k, suffix) /\ Truthy(ctx[k])}
  IN [k \in ks |-> ctx[k]]

\* C18 (as claimed): images() returns exactly the entries of context whose
\* key ends in '_image' and whose value is not empty (neither None nor the
\* empty string); audios() does the same for '_audio'.
C18_MediaAreNonEmpty ==
  /\ last_call[W1].op = "images" => last_call[W1].dict = NonEmptyMedia(context[W1], "_image")
  /\ last_call[W1].op = "audios" => last_call[W1].dict = NonEmptyMedia(context[W1], "_audio")

\* C19: to_dict(include_preferences) returns, for every key of context but
\* 'buffer', the value context holds and, when include_preferences is true,
\* for every other key of preferences the value preferences hold, and nothing
\* else; it leaves context and preferences as they were.
C19_ToDictMergesContextOverPreferences ==
  last_call[W1].op = "to_dict" =>
    LET ctx == loaded[W1].context
        prefs == loaded[W1].preferences
        res == last_call[W1].dict
        fromContext == (DOMAIN ctx) \ {"buffer"}
        fromPrefs == IF last_call[W1].arg = "True" THEN (DOMAIN prefs) \ fromContext ELSE {}
    IN /\ DOMAIN res = fromContext \cup fromPrefs
       /\ \A k \in fromContext : res[k] = ctx[k]
       /\ \A k \in fromPrefs : res[k] = prefs[k]
       /\ context[W1] = ctx
       /\ preferences[W1] = prefs

\* C19 witness: to_dict(True) on a session whose context and preferences both
\* hold k1 and buffer: k1 comes from context, buffer from preferences.
C19_Witness ==
  /\ last_call[W1].op = "to_dict"
  /\ last_call[W1].arg = "True"
  /\ context[W1] = [x \in {"k1", "buffer"} |-> "x"]
  /\ preferences[W1] = [x \in {"k1", "buffer"} |-> "y"]
  /\ last_call[W1].dict = [x \in {"k1", "buffer"} |-> IF x = "k1" THEN "x" ELSE "y"]

=============================================================================
